---- MODULE Spec2Model ----
(***************************************************************************)
(* Detail-controlled chunking and summarization, as defined in            *)
(* examples/Summarizing_with_controllable_detail.ipynb:                    *)
(*   tokenize, chunk_on_delimiter, combine_chunks_with_no_minimum,         *)
(*   summarize and get_chat_completion.                                    *)
(*                                                                         *)
(* A text is a sequence of one-character strings.  Literal fragments of   *)
(* the prompts ("Previous summaries:\n\n" ...) are single elements.       *)
(***************************************************************************)
EXTENDS Integers, Sequences, FiniteSets, TLC

(***************************************************************************)
(* Bounds of the model.                                                    *)
(***************************************************************************)
MaxTextLen == 7      \* longest input_string / text, in characters
MaxSegs == 3         \* longest segment list handed directly to the combiner
MaxSegLen == 2       \* longest segment handed directly to the combiner
MaxTokens == 3       \* largest max_tokens / minimum_chunk_size
DetailDen == 2       \* detail ranges over the multiples of 1/DetailDen

Alphabet == {"a", "."}

RECURSIVE SeqsUpTo(_, _)
SeqsUpTo(S, n) ==
    IF n = 0 THEN {<<>>}
    ELSE LET shorter == SeqsUpTo(S, n - 1)
         IN  shorter \cup {Append(s, x) : s \in shorter, x \in S}

Texts == SeqsUpTo(Alphabet, MaxTextLen)

RECURSIVE Rep(_, _)
Rep(c, n) == IF n = 0 THEN <<>> ELSE <<c>> \o Rep(c, n - 1)

Max2(a, b) == IF a >= b THEN a ELSE b

(***************************************************************************)
(* "..." : the overflow marker of combine_chunks_with_no_minimum.          *)
(***************************************************************************)
Ellipsis == <<".", ".", ".">>

(***************************************************************************)
(* str.join and str.split (one-character separator).                       *)
(***************************************************************************)
RECURSIVE Join(_, _)
Join(sep, parts) ==
    IF parts = <<>> THEN <<>>
    ELSE IF Len(parts) = 1 THEN parts[1]
    ELSE parts[1] \o sep \o Join(sep, Tail(parts))

RECURSIVE SplitFrom(_, _, _)
SplitFrom(s, sep, cur) ==
    IF s = <<>> THEN <<cur>>
    ELSE IF <<Head(s)>> = sep THEN <<cur>> \o SplitFrom(Tail(s), sep, <<>>)
    ELSE SplitFrom(Tail(s), sep, Append(cur, Head(s)))

Split(s, sep) == SplitFrom(s, sep, <<>>)

(***************************************************************************)
(* tokenize: the byte-pair encoder is a deterministic greedy encoder whose *)
(* vocabulary here holds "a", ".", ".." and "...": a token never spans a   *)
(* letter and punctuation, and runs of dots merge up to three at a time,   *)
(* so the count of a joined text is not the sum of the counts of its       *)
(* parts.  Fragments that are not in the alphabet are one token each.      *)
(***************************************************************************)
DotPrefix(t) ==
    IF Len(t) >= 3 /\ t[1] = "." /\ t[2] = "." /\ t[3] = "." THEN 3
    ELSE IF Len(t) >= 2 /\ t[1] = "." /\ t[2] = "." THEN 2
    ELSE 1

RECURSIVE tokenize(_)
tokenize(text) ==
    IF text = <<>> THEN <<>>
    ELSE LET n == DotPrefix(text)
         IN  <<SubSeq(text, 1, n)>> \o tokenize(SubSeq(text, n + 1, Len(text)))

(***************************************************************************)
(* State.  entry names the function that was called; pc is the position   *)
(* in it.  The other variables are the parameters and locals of the three  *)
(* functions, under the names the source gives them.                       *)
(***************************************************************************)
VARIABLES
    entry, pc,
    \* combine_chunks_with_no_minimum
    chunks, max_tokens, chunk_delimiter, header, add_ellipsis_for_overflow,
    chunk_i, candidate, candidate_indices, output, output_indices,
    dropped_chunk_count, overflow_warnings,
    \* chunk_on_delimiter
    input_string, combined_chunks, dropped_warnings,
    \* summarize
    text, detail, minimum_chunk_size, summarize_recursively,
    max_chunks, num_chunks, document_length, chunk_size, text_chunks,
    chunk_n, accumulated_summaries, messages, requests, final_summary, called,
    raised,
    \* a dispatcher that sends the requests of summarize in any order
    dispatched, completed

combine_vars ==
    <<chunks, max_tokens, chunk_delimiter, header, add_ellipsis_for_overflow,
      chunk_i, candidate, candidate_indices, output, output_indices,
      dropped_chunk_count, overflow_warnings>>

delimiter_vars == <<input_string, combined_chunks, dropped_warnings>>

summarize_vars ==
    <<text, detail, minimum_chunk_size, summarize_recursively,
      max_chunks, num_chunks, document_length, chunk_size, text_chunks,
      chunk_n, accumulated_summaries, messages, requests, final_summary, called,
      raised>>

parallel_vars == <<dispatched, completed>>

vars == <<entry, pc, combine_vars, delimiter_vars, summarize_vars, parallel_vars>>

(***************************************************************************)
(* combine_chunks_with_no_minimum.  header is <<>> for None and <<h>> for  *)
(* the header h.  The locals of one call form a frame, so that the loop    *)
(* body is one definition, used by the step-by-step actions and by the     *)
(* calls summarize makes.  Indices are 0-based, as enumerate gives them.   *)
(***************************************************************************)
NoHeader == <<>>

InitialFrame(hdr) ==
    [output |-> <<>>, output_indices |-> <<>>,
     candidate |-> hdr, candidate_indices |-> <<>>,
     dropped_chunk_count |-> 0, overflow_warnings |-> 0]

chunk_with_header(chunk, hdr) == hdr \o <<chunk>>

\* len(tokenize(chunk_delimiter.join(chunk_with_header))) > max_tokens
Overflows(chunk, hdr, delim, maxtok) ==
    Len(tokenize(Join(delim, chunk_with_header(chunk, hdr)))) > maxtok

\* a variant that appends the marker whenever the flag is set, without the
\* token check
EllipsisFitsUnchecked(cand, delim, maxtok, flag) == flag

\* add_ellipsis_for_overflow and len(tokenize(join(candidate + ["..."]))) <= max_tokens
EllipsisFits(cand, delim, maxtok, flag) ==
    flag /\ Len(tokenize(Join(delim, Append(cand, Ellipsis)))) <= maxtok

\* extended_candidate_token_count > max_tokens
CandidateFull(cand, chunk, delim, maxtok) ==
    Len(tokenize(Join(delim, Append(cand, chunk)))) > maxtok

\* a variant that counts every skipped segment, with or without a marker
OverflowBranchCountingAll(f, delim, maxtok, flag) ==
    IF EllipsisFits(f.candidate, delim, maxtok, flag)
    THEN [f EXCEPT !.candidate = Append(@, Ellipsis),
                   !.dropped_chunk_count = @ + 1,
                   !.overflow_warnings = @ + 1]
    ELSE [f EXCEPT !.dropped_chunk_count = @ + 1,
                   !.overflow_warnings = @ + 1]

\* the overflow branch: print the warning, mark the gap if the marker fits, continue
OverflowBranch(f, delim, maxtok, flag) ==
    IF EllipsisFits(f.candidate, delim, maxtok, flag)
    THEN [f EXCEPT !.candidate = Append(@, Ellipsis),
                   !.dropped_chunk_count = @ + 1,
                   !.overflow_warnings = @ + 1]
    ELSE [f EXCEPT !.overflow_warnings = @ + 1]

\* a variant that emits the candidate and restarts from the header alone,
\* losing the segment that did not fit
CloseCandidateDropping(f, chunk, i, hdr, delim) ==
    [f EXCEPT !.output = Append(@, Join(delim, f.candidate)),
              !.output_indices = Append(@, f.candidate_indices),
              !.candidate = hdr,
              !.candidate_indices = <<>>]

\* add the current candidate to output and start a new candidate
CloseCandidate(f, chunk, i, hdr, delim) ==
    [f EXCEPT !.output = Append(@, Join(delim, f.candidate)),
              !.output_indices = Append(@, f.candidate_indices),
              !.candidate = chunk_with_header(chunk, hdr),
              !.candidate_indices = <<i>>]

\* otherwise keep extending the candidate
ExtendCandidate(f, chunk, i) ==
    [f EXCEPT !.candidate = Append(@, chunk),
              !.candidate_indices = Append(@, i)]

LoopBody(f, chunk, i, maxtok, delim, hdr, flag) ==
    IF Overflows(chunk, hdr, delim, maxtok)
    THEN OverflowBranch(f, delim, maxtok, flag)
    ELSE IF CandidateFull(f.candidate, chunk, delim, maxtok)
         THEN CloseCandidate(f, chunk, i, hdr, delim)
         ELSE ExtendCandidate(f, chunk, i)

\* a variant that forgets the header when it tests for an empty candidate
CandidateNotEmptyAny(cand, hdr) == Len(cand) > 0

\* a variant that asks for more than one element with or without a header
CandidateNotEmptyStrict(cand, hdr) == Len(cand) > 1

\* (header is not None and len(candidate) > 1) or (header is None and len(candidate) > 0)
CandidateNotEmpty(cand, hdr) ==
    \/ hdr # NoHeader /\ Len(cand) > 1
    \/ hdr = NoHeader /\ Len(cand) > 0

\* add the remaining candidate to output if it's not empty
FinalEmission(f, delim, hdr) ==
    IF CandidateNotEmpty(f.candidate, hdr)
    THEN [f EXCEPT !.output = Append(@, Join(delim, f.candidate)),
                   !.output_indices = Append(@, f.candidate_indices)]
    ELSE f

RECURSIVE LoopFrom(_, _, _, _, _, _, _)
LoopFrom(f, segs, i, maxtok, delim, hdr, flag) ==
    IF i >= Len(segs) THEN f
    ELSE LoopFrom(LoopBody(f, segs[i + 1], i, maxtok, delim, hdr, flag),
                  segs, i + 1, maxtok, delim, hdr, flag)

\* the frame at "return output, output_indices, dropped_chunk_count"
combine_chunks_with_no_minimum(segs, maxtok, delim, hdr, flag) ==
    FinalEmission(LoopFrom(InitialFrame(hdr), segs, 0, maxtok, delim, hdr, flag),
                  delim, hdr)

(***************************************************************************)
(* chunk_on_delimiter: split, combine with the overflow marker enabled and *)
(* no header, then put the delimiter back at the end of every chunk.       *)
(***************************************************************************)
\* a variant that returns the combined chunks as they are
WithoutDelimiter(outs, delim) == outs

\* [f"{chunk}{delimiter}" for chunk in combined_chunks]
WithDelimiter(outs, delim) == [j \in 1..Len(outs) |-> outs[j] \o delim]

chunk_on_delimiter(str, maxtok, delim) ==
    WithDelimiter(
        combine_chunks_with_no_minimum(Split(str, delim), maxtok, delim,
                                       NoHeader, TRUE).output,
        delim)

\* the number of "warning: N chunks were dropped" lines the call prints
DroppedWarning(str, maxtok, delim) ==
    IF combine_chunks_with_no_minimum(Split(str, delim), maxtok, delim,
                                      NoHeader, TRUE).dropped_chunk_count > 0
    THEN 1 ELSE 0

(***************************************************************************)
(* The calls made directly to the two chunking functions, step by step.    *)
(***************************************************************************)
Frame ==
    [output |-> output, output_indices |-> output_indices,
     candidate |-> candidate, candidate_indices |-> candidate_indices,
     dropped_chunk_count |-> dropped_chunk_count,
     overflow_warnings |-> overflow_warnings]

SetFrame(f) ==
    /\ output' = f.output
    /\ output_indices' = f.output_indices
    /\ candidate' = f.candidate
    /\ candidate_indices' = f.candidate_indices
    /\ dropped_chunk_count' = f.dropped_chunk_count
    /\ overflow_warnings' = f.overflow_warnings

InLoop == pc = "for" /\ chunk_i < Len(chunks)

\* one iteration of "for chunk_i, chunk in enumerate(chunks)"
Iteration ==
    /\ SetFrame(LoopBody(Frame, chunks[chunk_i + 1], chunk_i, max_tokens,
                         chunk_delimiter, header, add_ellipsis_for_overflow))
    /\ chunk_i' = chunk_i + 1
    /\ UNCHANGED <<entry, parallel_vars, pc, chunks, max_tokens, chunk_delimiter, header,
                   add_ellipsis_for_overflow, delimiter_vars, summarize_vars>>

\* chunks = input_string.split(delimiter), then the call of the combiner
ChunkOnDelimiterCall ==
    /\ pc = "chunk_on_delimiter"
    /\ chunks' = Split(input_string, chunk_delimiter)
    /\ header' = NoHeader
    /\ add_ellipsis_for_overflow' = TRUE
    /\ SetFrame(InitialFrame(NoHeader))
    /\ chunk_i' = 0
    /\ pc' = "for"
    /\ UNCHANGED <<entry, parallel_vars, max_tokens, chunk_delimiter, delimiter_vars, summarize_vars>>

\* the segment cannot fit alone and the marker is appended
OverflowEllipsis ==
    /\ InLoop
    /\ Overflows(chunks[chunk_i + 1], header, chunk_delimiter, max_tokens)
    /\ EllipsisFits(candidate, chunk_delimiter, max_tokens, add_ellipsis_for_overflow)
    /\ Iteration

\* the segment cannot fit alone and nothing is appended
OverflowSkip ==
    /\ InLoop
    /\ Overflows(chunks[chunk_i + 1], header, chunk_delimiter, max_tokens)
    /\ ~EllipsisFits(candidate, chunk_delimiter, max_tokens, add_ellipsis_for_overflow)
    /\ Iteration

\* the segment fits alone but not in the running candidate
Close ==
    /\ InLoop
    /\ ~Overflows(chunks[chunk_i + 1], header, chunk_delimiter, max_tokens)
    /\ CandidateFull(candidate, chunks[chunk_i + 1], chunk_delimiter, max_tokens)
    /\ Iteration

\* the segment fits in the running candidate
Extend ==
    /\ InLoop
    /\ ~Overflows(chunks[chunk_i + 1], header, chunk_delimiter, max_tokens)
    /\ ~CandidateFull(candidate, chunks[chunk_i + 1], chunk_delimiter, max_tokens)
    /\ Iteration

\* the end of the loop: the final emission and the return
CombineReturn ==
    /\ pc = "for"
    /\ chunk_i = Len(chunks)
    /\ SetFrame(FinalEmission(Frame, chunk_delimiter, header))
    /\ pc' = "returned"
    /\ UNCHANGED <<entry, parallel_vars, chunks, max_tokens, chunk_delimiter, header,
                   add_ellipsis_for_overflow, chunk_i, delimiter_vars, summarize_vars>>

\* back in chunk_on_delimiter: the warning, the delimiters, the return
ChunkOnDelimiterReturn ==
    /\ pc = "returned"
    /\ entry = "chunk_on_delimiter"
    /\ dropped_warnings' = dropped_warnings + (IF dropped_chunk_count > 0 THEN 1 ELSE 0)
    /\ combined_chunks' = WithDelimiter(output, chunk_delimiter)
    /\ pc' = "done"
    /\ UNCHANGED <<entry, parallel_vars, combine_vars, input_string, summarize_vars>>

(***************************************************************************)
(* summarize.  detail is the rational detail / DetailDen.                  *)
(***************************************************************************)
system_message_content == <<"Summarize the following text.">>

Responses == {<<"x">>, <<"y">>}

\* what the client reports when it raises
Reasons == {"transport failure", "rate limit"}

NoException == [type |-> "None", reason |-> "None"]

\* int(): truncation toward zero of n / d, d > 0
IntOf(n, d) == IF n >= 0 THEN n \div d ELSE -((-n) \div d)

\* assert 0 <= detail <= 1
DetailValid(d) == 0 <= d /\ d <= DetailDen

\* a variant that interpolates from zero, not from min_chunks
NumChunksFromZero(d, maxchunks) == IntOf(d * maxchunks, DetailDen)

\* int(min_chunks + detail * (max_chunks - min_chunks)), min_chunks = 1
NumChunks(d, maxchunks) == IntOf(1 * DetailDen + d * (maxchunks - 1), DetailDen)

\* max(minimum_chunk_size, document_length // num_chunks)
ChunkSize(minsize, doclen, n) == Max2(minsize, doclen \div n)

\* a variant that tests the flag alone, not whether a summary exists yet
UserMessagePrefixAlways(recursive, summaries, chunk) ==
    IF recursive
    THEN <<"Previous summaries:\n\n">> \o Join(<<"\n\n">>, summaries)
         \o <<"\n\nText to summarize next:\n\n">> \o chunk
    ELSE chunk

\* a variant that tests only whether a summary exists, not the flag
UserMessageIgnoringFlag(recursive, summaries, chunk) ==
    IF summaries # <<>>
    THEN <<"Previous summaries:\n\n">> \o Join(<<"\n\n">>, summaries)
         \o <<"\n\nText to summarize next:\n\n">> \o chunk
    ELSE chunk

\* the user message of one iteration
UserMessage(recursive, summaries, chunk) ==
    IF recursive /\ summaries # <<>>
    THEN <<"Previous summaries:\n\n">> \o Join(<<"\n\n">>, summaries)
         \o <<"\n\nText to summarize next:\n\n">> \o chunk
    ELSE chunk

Messages(recursive, summaries, chunk) ==
    << [role |-> "system", content |-> system_message_content],
       [role |-> "user", content |-> UserMessage(recursive, summaries, chunk)] >>

\* assert 0 <= detail <= 1 fails
AssertFail ==
    /\ pc = "summarize"
    /\ ~DetailValid(detail)
    /\ pc' = "AssertionError"
    /\ raised' = [type |-> "AssertionError", reason |-> "assert 0 <= detail <= 1"]
    /\ UNCHANGED <<entry, parallel_vars, combine_vars, delimiter_vars, text, detail,
                   minimum_chunk_size, summarize_recursively, max_chunks, num_chunks,
                   document_length, chunk_size, text_chunks, chunk_n,
                   accumulated_summaries, messages, requests, final_summary, called>>

\* max_chunks, num_chunks and document_length
Interpolate ==
    /\ pc = "summarize"
    /\ DetailValid(detail)
    /\ max_chunks' = Len(chunk_on_delimiter(text, minimum_chunk_size, chunk_delimiter))
    /\ num_chunks' = NumChunks(detail, max_chunks')
    /\ document_length' = Len(tokenize(text))
    /\ dropped_warnings' =
           dropped_warnings + DroppedWarning(text, minimum_chunk_size, chunk_delimiter)
    /\ called' = called \cup {"segmenter", "combiner", "token counter"}
    /\ pc' = "chunk_size"
    /\ UNCHANGED <<entry, parallel_vars, combine_vars, input_string, combined_chunks, text, detail,
                   minimum_chunk_size, summarize_recursively, chunk_size, text_chunks,
                   chunk_n, accumulated_summaries, messages, requests, final_summary, raised>>

\* document_length // num_chunks with num_chunks = 0
ZeroDivision ==
    /\ pc = "chunk_size"
    /\ num_chunks = 0
    /\ pc' = "ZeroDivisionError"
    /\ raised' = [type |-> "ZeroDivisionError",
                  reason |-> "integer division or modulo by zero"]
    /\ UNCHANGED <<entry, parallel_vars, combine_vars, delimiter_vars, text, detail,
                   minimum_chunk_size, summarize_recursively, max_chunks, num_chunks,
                   document_length, chunk_size, text_chunks, chunk_n,
                   accumulated_summaries, messages, requests, final_summary, called>>

\* chunk_size and text_chunks; accumulated_summaries = []
SplitText ==
    /\ pc = "chunk_size"
    /\ num_chunks # 0
    /\ chunk_size' = ChunkSize(minimum_chunk_size, document_length, num_chunks)
    /\ text_chunks' = chunk_on_delimiter(text, chunk_size', chunk_delimiter)
    /\ dropped_warnings' =
           dropped_warnings + DroppedWarning(text, chunk_size', chunk_delimiter)
    /\ accumulated_summaries' = <<>>
    /\ chunk_n' = 0
    /\ pc' = "for chunk"
    /\ UNCHANGED <<entry, parallel_vars, combine_vars, input_string, combined_chunks, text, detail,
                   minimum_chunk_size, summarize_recursively, max_chunks, num_chunks,
                   document_length, messages, requests, final_summary, called, raised>>

\* the next chunk of "for chunk in tqdm(text_chunks)": the messages and the call
Request ==
    /\ pc = "for chunk"
    /\ chunk_n < Len(text_chunks)
    /\ chunk_n' = chunk_n + 1
    /\ messages' = Messages(summarize_recursively, accumulated_summaries,
                            text_chunks[chunk_n + 1])
    /\ requests' = Append(requests, [chunk |-> chunk_n, messages |-> messages'])
    /\ called' = called \cup {"service"}
    /\ pc' = "get_chat_completion"
    /\ UNCHANGED <<entry, parallel_vars, combine_vars, delimiter_vars, text, detail,
                   minimum_chunk_size, summarize_recursively, max_chunks, num_chunks,
                   document_length, chunk_size, text_chunks, accumulated_summaries,
                   final_summary, raised>>

\* a variant that does not append the response
ResponseDropped ==
    /\ pc = "get_chat_completion"
    /\ pc' = "for chunk"
    /\ UNCHANGED <<entry, parallel_vars, combine_vars, delimiter_vars, summarize_vars>>

\* a variant that puts the response in front of the earlier ones
ResponsePrepended ==
    /\ pc = "get_chat_completion"
    /\ \E response \in Responses :
           accumulated_summaries' = <<response>> \o accumulated_summaries
    /\ pc' = "for chunk"
    /\ UNCHANGED <<entry, parallel_vars, combine_vars, delimiter_vars, text, detail,
                   minimum_chunk_size, summarize_recursively, max_chunks, num_chunks,
                   document_length, chunk_size, text_chunks, chunk_n, messages,
                   requests, final_summary, called, raised>>

\* get_chat_completion returns; accumulated_summaries.append(response)
Response ==
    /\ pc = "get_chat_completion"
    /\ \E response \in Responses :
           accumulated_summaries' = Append(accumulated_summaries, response)
    /\ pc' = "for chunk"
    /\ UNCHANGED <<entry, parallel_vars, combine_vars, delimiter_vars, text, detail,
                   minimum_chunk_size, summarize_recursively, max_chunks, num_chunks,
                   document_length, chunk_size, text_chunks, chunk_n, messages,
                   requests, final_summary, called, raised>>

\* a variant that goes back to the loop head and issues the request again
ServiceFailureRetried ==
    /\ pc = "get_chat_completion"
    /\ pc' = "for chunk"
    /\ chunk_n' = chunk_n - 1
    /\ UNCHANGED <<entry, parallel_vars, combine_vars, delimiter_vars, text, detail,
                   minimum_chunk_size, summarize_recursively, max_chunks, num_chunks,
                   document_length, chunk_size, text_chunks,
                   accumulated_summaries, messages, requests, final_summary, called,
                   raised>>

\* client.chat.completions.create raises: neither get_chat_completion nor
\* summarize catches the exception, which reaches the caller as the client built it
ServiceFailure ==
    /\ pc = "get_chat_completion"
    /\ pc' = "ServiceError"
    /\ \E reason \in Reasons :
           raised' = [type |-> "ServiceError", reason |-> reason]
    /\ UNCHANGED <<entry, parallel_vars, combine_vars, delimiter_vars, text, detail,
                   minimum_chunk_size, summarize_recursively, max_chunks, num_chunks,
                   document_length, chunk_size, text_chunks, chunk_n,
                   accumulated_summaries, messages, requests, final_summary, called>>

\* final_summary = '\n\n'.join(accumulated_summaries); return final_summary
Return ==
    /\ pc = "for chunk"
    /\ chunk_n = Len(text_chunks)
    /\ final_summary' = Join(<<"\n\n">>, accumulated_summaries)
    /\ pc' = "done"
    /\ UNCHANGED <<entry, parallel_vars, combine_vars, delimiter_vars, text, detail,
                   minimum_chunk_size, summarize_recursively, max_chunks, num_chunks,
                   document_length, chunk_size, text_chunks, chunk_n,
                   accumulated_summaries, messages, requests, called, raised>>

(***************************************************************************)
(* The loop of summarize against a service whose response is a function of *)
(* the request, and a dispatcher that builds the same requests by the same *)
(* rule but sends them in any order and reassembles the responses by chunk *)
(* index (section 5 of the design: not part of the notebook).              *)
(***************************************************************************)
\* a deterministic service: the response repeats the user message
Service(msgs) == <<"summary of:">> \o msgs[2].content

\* accumulated_summaries after the loop has run over the first k chunks
RECURSIVE SequentialSummaries(_, _, _)
SequentialSummaries(recursive, chunkTexts, k) ==
    IF k = 0 THEN <<>>
    ELSE LET earlier == SequentialSummaries(recursive, chunkTexts, k - 1)
         IN  Append(earlier, Service(Messages(recursive, earlier, chunkTexts[k])))

\* the messages the loop sends for chunk k (1-based)
SequentialRequest(recursive, chunkTexts, k) ==
    Messages(recursive, SequentialSummaries(recursive, chunkTexts, k - 1),
             chunkTexts[k])

DispatchedChunks == {d.chunk : d \in dispatched}

CompletedChunks == {c.chunk : c \in completed}

ResponseOf(k) == (CHOOSE c \in completed : c.chunk = k).response

\* the responses received so far, by chunk index
RECURSIVE InIndexOrder(_)
InIndexOrder(k) ==
    IF k >= Len(text_chunks) THEN <<>>
    ELSE (IF k \in CompletedChunks THEN <<ResponseOf(k)>> ELSE <<>>)
         \o InIndexOrder(k + 1)

\* the request for any chunk not sent yet, built as the loop body builds it
Dispatch ==
    /\ pc = "for chunk"
    /\ \E k \in (0..(Len(text_chunks) - 1)) \ DispatchedChunks :
           /\ dispatched' = dispatched \cup
                  { [chunk |-> k,
                     messages |-> Messages(summarize_recursively, InIndexOrder(0),
                                           text_chunks[k + 1])] }
    /\ called' = called \cup {"service"}
    /\ UNCHANGED <<entry, pc, completed, combine_vars, delimiter_vars, text, detail,
                   minimum_chunk_size, summarize_recursively, max_chunks, num_chunks,
                   document_length, chunk_size, text_chunks, chunk_n,
                   accumulated_summaries, messages, requests, final_summary, raised>>

\* the response to any request in flight
Complete ==
    /\ pc = "for chunk"
    /\ \E d \in dispatched :
           /\ d.chunk \notin CompletedChunks
           /\ completed' = completed \cup
                  { [chunk |-> d.chunk, response |-> Service(d.messages)] }
    /\ UNCHANGED <<entry, pc, dispatched, combine_vars, delimiter_vars, summarize_vars>>

\* every response is in: the summaries by chunk index and their join
Reassemble ==
    /\ pc = "for chunk"
    /\ CompletedChunks = 0..(Len(text_chunks) - 1)
    /\ accumulated_summaries' = InIndexOrder(0)
    /\ final_summary' = Join(<<"\n\n">>, accumulated_summaries')
    /\ pc' = "done"
    /\ UNCHANGED <<entry, parallel_vars, combine_vars, delimiter_vars, text, detail,
                   minimum_chunk_size, summarize_recursively, max_chunks, num_chunks,
                   document_length, chunk_size, text_chunks, chunk_n,
                   messages, requests, called, raised>>

(***************************************************************************)
(* The calls.                                                              *)
(***************************************************************************)
Delimiter == <<".">>

Segments == {Rep("a", n) : n \in 0..MaxSegLen} \cup {Ellipsis}

Headers == {NoHeader, <<<<>>>>, <<<<"a">>>>}

Sizes == 0..MaxTokens

Details == -1..(DetailDen + 1)

NoCombine ==
    /\ chunks = <<>> /\ max_tokens = 0 /\ header = NoHeader
    /\ add_ellipsis_for_overflow = FALSE /\ chunk_i = 0
    /\ candidate = <<>> /\ candidate_indices = <<>>
    /\ output = <<>> /\ output_indices = <<>>
    /\ dropped_chunk_count = 0 /\ overflow_warnings = 0

NoSummarize ==
    /\ text = <<>> /\ detail = 0 /\ minimum_chunk_size = 0
    /\ summarize_recursively = FALSE
    /\ max_chunks = 0 /\ num_chunks = 0 /\ document_length = 0 /\ chunk_size = 0
    /\ text_chunks = <<>> /\ chunk_n = 0 /\ accumulated_summaries = <<>>
    /\ messages = <<>> /\ requests = <<>> /\ final_summary = <<>> /\ called = {}
    /\ raised = NoException
    /\ dispatched = {} /\ completed = {}

\* combine_chunks_with_no_minimum(chunks, max_tokens, chunk_delimiter, header, flag)
InitCombine ==
    /\ entry = "combine_chunks_with_no_minimum"
    /\ pc = "for"
    /\ chunks \in SeqsUpTo(Segments, MaxSegs)
    /\ max_tokens \in Sizes
    /\ chunk_delimiter \in {Delimiter, <<"\n">>}
    /\ header \in Headers
    /\ add_ellipsis_for_overflow \in BOOLEAN
    /\ chunk_i = 0
    /\ candidate = header /\ candidate_indices = <<>>
    /\ output = <<>> /\ output_indices = <<>>
    /\ dropped_chunk_count = 0 /\ overflow_warnings = 0
    /\ input_string = <<>> /\ combined_chunks = <<>> /\ dropped_warnings = 0
    /\ NoSummarize

\* chunk_on_delimiter(input_string, max_tokens, delimiter)
InitChunkOnDelimiter ==
    /\ entry = "chunk_on_delimiter"
    /\ pc = "chunk_on_delimiter"
    /\ input_string \in Texts
    /\ max_tokens \in Sizes
    /\ chunk_delimiter = Delimiter
    /\ chunks = <<>> /\ header = NoHeader
    /\ add_ellipsis_for_overflow = FALSE /\ chunk_i = 0
    /\ candidate = <<>> /\ candidate_indices = <<>>
    /\ output = <<>> /\ output_indices = <<>>
    /\ dropped_chunk_count = 0 /\ overflow_warnings = 0
    /\ combined_chunks = <<>> /\ dropped_warnings = 0
    /\ NoSummarize

InitChunking == InitCombine \/ InitChunkOnDelimiter

NextChunking ==
    \/ ChunkOnDelimiterCall
    \/ OverflowEllipsis
    \/ OverflowSkip
    \/ Close
    \/ Extend
    \/ CombineReturn
    \/ ChunkOnDelimiterReturn

SpecChunking == InitChunking /\ [][NextChunking]_vars

\* summarize(text, detail, minimum_chunk_size, chunk_delimiter, summarize_recursively)
Init ==
    /\ entry = "summarize"
    /\ pc = "summarize"
    /\ text \in Texts
    /\ detail \in Details
    /\ minimum_chunk_size \in Sizes
    /\ summarize_recursively \in BOOLEAN
    /\ chunk_delimiter = Delimiter
    /\ max_chunks = 0 /\ num_chunks = 0 /\ document_length = 0 /\ chunk_size = 0
    /\ text_chunks = <<>> /\ chunk_n = 0 /\ accumulated_summaries = <<>>
    /\ messages = <<>> /\ requests = <<>> /\ final_summary = <<>> /\ called = {}
    /\ raised = NoException
    /\ dispatched = {} /\ completed = {}
    /\ NoCombine
    /\ input_string = <<>> /\ combined_chunks = <<>> /\ dropped_warnings = 0

Next ==
    \/ AssertFail
    \/ Interpolate
    \/ ZeroDivision
    \/ SplitText
    \/ Request
    \/ Response
    \/ ServiceFailure
    \/ Return

Spec == Init /\ [][Next]_vars

\* summarize(..., summarize_recursively=False) with the loop replaced by the
\* dispatcher
InitParallel == Init /\ ~summarize_recursively

NextParallel ==
    \/ AssertFail
    \/ Interpolate
    \/ ZeroDivision
    \/ SplitText
    \/ Dispatch
    \/ Complete
    \/ Reassemble

SpecParallel == InitParallel /\ [][NextParallel]_vars

(***************************************************************************)
(* Properties.                                                             *)
(***************************************************************************)
Returned == pc \in {"returned", "done"}

Chunked == pc \in {"for chunk", "get_chat_completion", "ServiceError", "done"}

RECURSIVE Flatten(_)
Flatten(ss) == IF ss = <<>> THEN <<>> ELSE Head(ss) \o Flatten(Tail(ss))

\* the 0-based indices, in increasing order, of the segments that fit alone
RECURSIVE FittingFrom(_)
FittingFrom(i) ==
    IF i >= Len(chunks) THEN <<>>
    ELSE (IF Overflows(chunks[i + 1], header, chunk_delimiter, max_tokens)
          THEN <<>> ELSE <<i>>) \o FittingFrom(i + 1)

\* the lists got from parts by inserting at most n overflow markers
RECURSIVE WithMarkers(_, _)
WithMarkers(parts, n) ==
    IF n = 0 THEN {parts}
    ELSE LET fewer == WithMarkers(parts, n - 1)
         IN  fewer \cup
             UNION { { SubSeq(t, 1, k) \o <<Ellipsis>> \o SubSeq(t, k + 1, Len(t)) :
                       k \in 0..Len(t) } : t \in fewer }

\* the chunk count summarize realizes for text t, detail d and minimum size m
RealizedChunks(t, d, m) ==
    LET n == NumChunks(d, Len(chunk_on_delimiter(t, m, Delimiter)))
    IN  Len(chunk_on_delimiter(t, ChunkSize(m, Len(tokenize(t)), n), Delimiter))

\* C1: every chunk text the combiner has emitted, whether or not it holds
\* overflow markers, has at most max_tokens tokens.
C1_EmittedWithinMaxTokens ==
    \A j \in 1..Len(output) : Len(tokenize(output[j])) <= max_tokens

\* C1 witness: the combiner has returned two chunks or more, built under a
\* header, and an overflow marker was put into one of them.
C1_Witness ==
    /\ entry = "combine_chunks_with_no_minimum"
    /\ pc = "returned"
    /\ header # NoHeader
    /\ dropped_chunk_count > 0
    /\ Len(output) >= 2

\* C2: every chunk chunk_on_delimiter returns, the delimiter re-appended
\* included, has at most max_tokens tokens.
C2_ChunkWithinMaxTokens ==
    (entry = "chunk_on_delimiter" /\ pc = "done") =>
        \A j \in 1..Len(combined_chunks) :
            Len(tokenize(combined_chunks[j])) <= max_tokens

\* C3: when the combiner returns, dropped_chunk_count is the number of segments
\* that were skipped in the overflow branch (one "chunk overflow" warning each).
C3_DroppedCountsSkipped ==
    pc = "returned" => dropped_chunk_count = overflow_warnings

\* C4: when the combiner returns, the index lists, concatenated, are exactly the
\* increasing sequence of the indices of the segments that fit alone, and every
\* chunk text is the join of the header, the segments at its indices in order
\* and overflow markers, so that no oversized segment is part of any chunk.
C4_DroppedIffOversized ==
    pc = "returned" =>
        /\ Flatten(output_indices) = FittingFrom(0)
        /\ Len(output) = Len(output_indices)
        /\ \A j \in 1..Len(output) :
               \E body \in WithMarkers(
                       [k \in 1..Len(output_indices[j]) |->
                            chunks[output_indices[j][k] + 1]],
                       overflow_warnings) :
                   output[j] = Join(chunk_delimiter, header \o body)

\* C4 witness: a return after an oversized segment was skipped and a fitting
\* segment closed the running candidate.
C4_Witness ==
    /\ pc = "returned"
    /\ overflow_warnings > 0
    /\ Len(output) >= 2
    /\ Len(Flatten(output_indices)) >= 2

\* C5: the number of chunks summarize produces for its detail is at most the
\* number it produces, for the same text and minimum_chunk_size > 0, for every
\* larger detail in [0,1].
C5_RealizedCountMonotone ==
    (Chunked /\ minimum_chunk_size > 0) =>
        \A d2 \in 0..DetailDen :
            d2 > detail =>
                Len(text_chunks) <= RealizedChunks(text, d2, minimum_chunk_size)

\* C6: for the max_chunks summarize has computed, num_chunks is non-decreasing
\* in detail over [0,1] and chunk_size, where it is computed, is non-increasing.
C6_InterpolationMonotone ==
    pc = "chunk_size" =>
        \A d1, d2 \in 0..DetailDen :
            d1 < d2 =>
                /\ NumChunks(d1, max_chunks) <= NumChunks(d2, max_chunks)
                /\ (NumChunks(d1, max_chunks) > 0 /\ NumChunks(d2, max_chunks) > 0) =>
                       ChunkSize(minimum_chunk_size, document_length,
                                 NumChunks(d1, max_chunks))
                       >= ChunkSize(minimum_chunk_size, document_length,
                                    NumChunks(d2, max_chunks))

\* C7: with detail = 0 and a document of fewer tokens than minimum_chunk_size,
\* summarize splits the text into exactly one chunk and, when it returns, has
\* issued exactly one request.
C7_ShortDocumentOneChunk ==
    (Chunked /\ detail = 0 /\ document_length < minimum_chunk_size) =>
        /\ Len(text_chunks) = 1
        /\ pc = "done" => Len(requests) = 1

\* C7 witness: summarize has returned for detail = 0 and a document of several
\* segments that is shorter than minimum_chunk_size.
C7_Witness ==
    /\ pc = "done"
    /\ detail = 0
    /\ document_length < minimum_chunk_size
    /\ Len(Split(text, chunk_delimiter)) >= 3

\* C8: with detail outside [0,1] or minimum_chunk_size <= 0, summarize fails
\* before it calls the segmenter, the combiner, the token counter or the service.
C8_InvalidConfigurationRejected ==
    (~DetailValid(detail) \/ minimum_chunk_size <= 0) =>
        /\ called = {}
        /\ pc \in {"summarize", "AssertionError"}

\* C9: for a detail in [0,1], summarize never raises for another reason than a
\* failure of the summarization service.
C9_OverflowNeverAborts ==
    DetailValid(detail) => pc \notin {"AssertionError", "ZeroDivisionError"}

\* C10: the requests are issued one per chunk and in chunk order, request j
\* carrying chunk j and built after the response to request j - 1 was appended
\* to accumulated_summaries, and a run that returns has issued exactly one
\* request for every chunk.
C10_OneRequestPerChunkInOrder ==
    /\ \A j \in 1..Len(requests) :
           /\ requests[j].chunk = j - 1
           /\ j <= Len(text_chunks)
           /\ j <= Len(accumulated_summaries) + 1
           /\ requests[j].messages =
                  Messages(summarize_recursively,
                           SubSeq(accumulated_summaries, 1, j - 1), text_chunks[j])
    /\ pc = "get_chat_completion" => Len(accumulated_summaries) = Len(requests) - 1
    /\ pc = "for chunk" => Len(accumulated_summaries) = Len(requests)
    /\ pc = "done" => /\ Len(requests) = Len(text_chunks)
                      /\ Len(accumulated_summaries) = Len(text_chunks)

\* C10 witness: a run has returned after three requests or more.
C10_Witness == pc = "done" /\ Len(requests) >= 3


IsPrefix(a, b) == Len(a) <= Len(b) /\ SubSeq(b, 1, Len(a)) = a

\* C11: the value summarize returns is the partial summaries joined by "\n\n",
\* one per chunk; and accumulated_summaries only ever grows at its end, by the
\* response to the request just issued, so that an appended summary is never
\* changed, moved or removed.
C11_FinalSummaryAppendOnly ==
    /\ [](pc = "done" =>
            /\ Len(accumulated_summaries) = Len(text_chunks)
            /\ final_summary = Join(<<"\n\n">>, accumulated_summaries)
            /\ Len(final_summary) =
                   Len(Flatten(accumulated_summaries))
                   + Max2(0, Len(accumulated_summaries) - 1))
    /\ [][/\ IsPrefix(accumulated_summaries, accumulated_summaries')
          /\ accumulated_summaries' # accumulated_summaries =>
                 /\ pc = "get_chat_completion"
                 /\ Len(accumulated_summaries') = Len(accumulated_summaries) + 1
                 /\ Len(accumulated_summaries') = Len(requests)]_vars

\* C11 witness: a run has returned the join of two different partial summaries
\* or more.
C11_Witness ==
    /\ pc = "done"
    /\ Len(accumulated_summaries) >= 2
    /\ accumulated_summaries[1] # accumulated_summaries[2]
    /\ final_summary # <<>>


\* C12: in recursive mode the user message for chunk k >= 2 is the
\* "Previous summaries" prefix, the k - 1 earlier responses in order joined by
\* "\n\n", "Text to summarize next" and the chunk; the user message for the first
\* chunk, and for every chunk in non-recursive mode, is the chunk alone.  So the
\* first request is the one the other mode builds, and a run over a single chunk
\* issues the request sequence of the other mode.
C12_RecursiveMessages ==
    /\ \A k \in 1..Len(requests) :
           LET user == requests[k].messages[2]
               earlier == [j \in 1..(k - 1) |-> accumulated_summaries[j]]
           IN  /\ Len(requests[k].messages) = 2
               /\ requests[k].messages[1] =
                      [role |-> "system", content |-> system_message_content]
               /\ user.role = "user"
               /\ user.content =
                      IF summarize_recursively /\ k >= 2
                      THEN <<"Previous summaries:\n\n">>
                           \o Join(<<"\n\n">>, earlier)
                           \o <<"\n\nText to summarize next:\n\n">>
                           \o text_chunks[k]
                      ELSE text_chunks[k]
    /\ Len(requests) >= 1 =>
           requests[1].messages =
               Messages(~summarize_recursively, <<>>, text_chunks[1])
    /\ (pc = "done" /\ Len(text_chunks) = 1) =>
           requests = << [chunk |-> 0,
                          messages |-> Messages(~summarize_recursively, <<>>,
                                                text_chunks[1])] >>

\* C12 witness: a recursive run has returned after three requests or more.
C12_Witness ==
    /\ pc = "done"
    /\ summarize_recursively
    /\ Len(requests) >= 3


\* C13: a failure of the service on chunk k is not retried and ends the run.
\* In the failed state the failed request is the last one and was issued once,
\* no request follows it, nothing was returned and the k - 1 partial summaries
\* are the ones computed before; the only step from a pending call that appends
\* no response is that failure, and no step leaves the failed state.
C13_FailurePropagatesNoRetry ==
    /\ [](pc = "ServiceError" =>
            /\ raised.type = "ServiceError"
            /\ final_summary = <<>>
            /\ Len(requests) = chunk_n
            /\ Len(accumulated_summaries) = chunk_n - 1
            /\ \A i, j \in 1..Len(requests) :
                   requests[i].chunk = requests[j].chunk => i = j)
    /\ [][(pc = "get_chat_completion"
           /\ accumulated_summaries' = accumulated_summaries) =>
              /\ pc' = "ServiceError"
              /\ UNCHANGED <<requests, chunk_n, final_summary, text_chunks>>]_vars
    /\ [][pc # "ServiceError"]_vars

\* C13 witness: the service has failed on the third chunk or a later one, two
\* partial summaries or more being kept.
C13_Witness ==
    /\ pc = "ServiceError"
    /\ Len(requests) >= 3
    /\ Len(accumulated_summaries) = Len(requests) - 1

\* C14: the exception that reaches the caller on a failure of the service
\* names the index of the chunk whose request failed, and the reason.
C14_ErrorNamesChunk ==
    pc = "ServiceError" =>
        /\ raised.reason \in Reasons
        /\ "chunk" \in DOMAIN raised
        /\ raised.chunk = chunk_n - 1


\* C15: in non-recursive mode the request for chunk k is the system instruction
\* and the text of chunk k, whatever responses are already in; so the requests
\* sent in any order are the requests of the sequential loop, and the summaries
\* reassembled by chunk index and their join are the ones the loop ends with.
C15_ParallelDispatchEquivalent ==
    ~summarize_recursively =>
        /\ \A d \in dispatched :
               /\ d.messages =
                      << [role |-> "system", content |-> system_message_content],
                         [role |-> "user", content |-> text_chunks[d.chunk + 1]] >>
               /\ d.messages = SequentialRequest(FALSE, text_chunks, d.chunk + 1)
        /\ \A c \in completed :
               c.response =
                   SequentialSummaries(FALSE, text_chunks, Len(text_chunks))[c.chunk + 1]
        /\ (pc = "done" /\ entry = "summarize" /\ dispatched # {}) =>
               /\ accumulated_summaries =
                      SequentialSummaries(FALSE, text_chunks, Len(text_chunks))
               /\ final_summary =
                      Join(<<"\n\n">>,
                           SequentialSummaries(FALSE, text_chunks, Len(text_chunks)))

\* C15 witness: the response for the third chunk is in before the request for
\* the first chunk is sent.
C15_Witness ==
    /\ ~summarize_recursively
    /\ pc = "for chunk"
    /\ 2 \in CompletedChunks
    /\ 0 \notin DispatchedChunks


\* C16: with a header, every candidate starts with the header, which has no
\* entry in candidate_indices; every emitted chunk starts with the header
\* followed by the delimiter; and whenever a chunk is emitted, in the loop or at
\* the end, it is the join of a candidate that holds more than the header.
C16_HeaderInEveryChunk ==
    /\ [](header # NoHeader =>
            /\ Len(candidate) >= 1
            /\ candidate[1] = header[1]
            /\ Len(candidate_indices) <= Len(candidate) - 1
            /\ Len(candidate) - 1 <= Len(candidate_indices) + dropped_chunk_count
            /\ Len(output_indices) = Len(output)
            /\ \A j \in 1..Len(output) :
                   /\ Len(output[j]) >= Len(header[1]) + Len(chunk_delimiter)
                   /\ SubSeq(output[j], 1, Len(header[1]) + Len(chunk_delimiter))
                          = header[1] \o chunk_delimiter
                   /\ \A k \in 1..Len(output_indices[j]) :
                          output_indices[j][k] \in 0..(Len(chunks) - 1))
    /\ [][(header # NoHeader /\ output' # output) =>
              /\ Len(candidate) > 1
              /\ output' = Append(output, Join(chunk_delimiter, candidate))
              /\ output_indices' = Append(output_indices, candidate_indices)]_vars

\* C16 witness: under a header, the combiner has returned after it closed a
\* candidate in the loop and emitted the last one.
C16_Witness ==
    /\ header # NoHeader
    /\ pc = "returned"
    /\ Len(output) >= 2


\* the lists got from parts by inserting exactly n overflow markers
RECURSIVE ExactMarkers(_, _)
ExactMarkers(parts, n) ==
    IF n = 0 THEN {parts}
    ELSE UNION { { SubSeq(t, 1, k) \o <<Ellipsis>> \o SubSeq(t, k + 1, Len(t)) :
                     k \in 0..Len(t) } : t \in ExactMarkers(parts, n - 1) }

\* the numbers of markers that chunk j can hold beside the header and the
\* segments at its indices
MarkerCounts(j) ==
    { n \in 0..dropped_chunk_count :
        \E body \in ExactMarkers([k \in 1..Len(output_indices[j]) |->
                                     chunks[output_indices[j][k] + 1]], n) :
            output[j] = Join(chunk_delimiter, header \o body) }

\* the total numbers of markers the first j chunks can hold
RECURSIVE MarkerTotals(_)
MarkerTotals(j) ==
    IF j = 0 THEN {0}
    ELSE { s + n : s \in MarkerTotals(j - 1), n \in MarkerCounts(j) }

C18_NumChunksAtLeastOne ==
    (/\ minimum_chunk_size > 0
     /\ 0 <= detail /\ detail <= DetailDen
     /\ pc # "summarize") =>
        /\ max_chunks >= 1
        /\ num_chunks >= 1
        /\ raised.type # "ZeroDivisionError"

\* C18 witness: at full detail every segment of the text was oversized for a
\* positive minimum_chunk_size, and the division has been done.
C18_Witness ==
    /\ minimum_chunk_size > 0
    /\ detail = DetailDen
    /\ pc = "for chunk"
    /\ Len(text) > 0
    /\ \A k \in 1..Len(Split(text, chunk_delimiter)) :
           Len(tokenize(Split(text, chunk_delimiter)[k])) > minimum_chunk_size
    /\ num_chunks = 1


\* C19: when no segment of the text is oversized for max_tokens, the chunks
\* chunk_on_delimiter returns, concatenated in order, are the text followed by
\* one more delimiter, whatever the number of chunks.
C19_ConcatenationRestoresText ==
    (/\ entry = "chunk_on_delimiter"
     /\ pc = "done"
     /\ \A k \in 1..Len(Split(input_string, chunk_delimiter)) :
            Len(tokenize(Split(input_string, chunk_delimiter)[k])) <= max_tokens) =>
        Flatten(combined_chunks) = input_string \o chunk_delimiter

\* C19 witness: a text with no oversized segment came back in several
\* chunks, one of them of more than one segment.
C19_Witness ==
    /\ entry = "chunk_on_delimiter"
    /\ pc = "done"
    /\ \A k \in 1..Len(Split(input_string, chunk_delimiter)) :
           Len(tokenize(Split(input_string, chunk_delimiter)[k])) <= max_tokens
    /\ Len(combined_chunks) >= 2
    /\ \E j \in 1..Len(output_indices) : Len(output_indices[j]) >= 2

====
